---- MODULE Spec2Model ----
(***************************************************************************)
(* The sales dashboard of ds-cs-toolkit: the filter, the three series      *)
(* builders and the metrics of taipy_implementation/taipy_logic.py, driven *)
(* by process_data_changes over a dataset loaded once (Spec); the app of   *)
(* taipy-app.py with its on_init and on_change passes (SpecApp); the       *)
(* dashboard of gradio_implementation/gradio_app.py (SpecGradio) and the   *)
(* TTL cache of its category list (SpecCache); the three loaders           *)
(* (SpecLoad); the weather service of grafana-loki-alloy_implementation/   *)
(* app.py (SpecWeather, SpecWeatherFair); and generate_order_data of       *)
(* taipy_implementation/data_generation.py (SpecGen).                      *)
(*                                                                         *)
(* A DataFrame is a sequence of rows; a row is a record of its columns.    *)
(* Money is counted in whole dollars in the revenue column and in cents in *)
(* the formatted "$x.xx" strings. Dates are day numbers, day 0 being       *)
(* 2020-01-01; order dates carry no time of day.                           *)
(***************************************************************************)
EXTENDS Integers, Sequences, FiniteSets, TLC

(***************************************************************************)
(* Bounds of the model.                                                    *)
(***************************************************************************)
MaxRows == 2
MaxOrderId == 2
MaxDate == 2
MaxRevenue == 2
MaxRefund == 1
MaxExtraRows == 1
MaxPasses == 1
MaxAppPasses == 3
MaxCell == 2
MaxSourceRows == 2
MaxQuantity == 2
MaxPrice == 2
MaxTotalError == 1

(***************************************************************************)
(* Program constants.                                                      *)
(***************************************************************************)
DefaultLimit == 10
DefaultStartDate == 0
DefaultEndDate == 1460
GradioLimit == 10
AppLimit == 10
CacheTtl == 300

AllCategories == "All Categories"
NotAvailable == "N/A"

\* A missing cell of a string column (pandas NaN) and of the order_id column.
NaN == "NaN"
NaNId == 0 - 1

\* get_product_data: the product catalogue and each product's category.
ProductNames ==
    << "Laptop", "Smartphone", "Desk", "Chair", "Monitor", "Printer",
       "Paper", "Pen", "Notebook", "Coffee Maker", "Cabinet", "Plastic Cups" >>

ProductCategories ==
    << "Electronics", "Electronics", "Office", "Office", "Electronics",
       "Electronics", "Stationery", "Stationery", "Stationery", "Electronics",
       "Office", "Sundry" >>

\* Python's order on the strings of the model (by code point), ascending.
StringOrder ==
    << "All Categories", "All categories", "Cabinet", "Chair", "Coffee Maker",
       "Desk", "Electronics", "Laptop", "Monitor", "Notebook", "Office",
       "Paper", "Pen", "Plastic Cups", "Printer", "Smartphone", "Stationery",
       "Sundry", "electronics", "office" >>

StringRank(s) == CHOOSE i \in 1..Len(StringOrder) : StringOrder[i] = s

\* The rank of a value of column col: strings by code point, numbers by value.
KeyRank(col, v) ==
    IF col \in {"categories", "product_names"} THEN StringRank(v) ELSE v

\* pandas isna on a cell of column col.
IsNull(col, v) ==
    CASE col \in {"categories", "product_names"} -> v = NaN
      [] col = "order_id" -> v = NaNId
      [] OTHER -> FALSE

Min(a, b) == IF a <= b THEN a ELSE b
Max(a, b) == IF a >= b THEN a ELSE b

(***************************************************************************)
(* The datasets the loader can hand to the pipeline.                       *)
(***************************************************************************)
\* Product name and category as they appear together in a row: catalogue
\* pairs, a category label in another letter case, and missing cells.
Items ==
    { << "Laptop", "Electronics" >>, << "Desk", "Office" >>,
      << "Desk", "office" >>, << NaN, "Office" >>, << "Laptop", NaN >> }

Revenues == (0 - MaxRefund)..MaxRevenue

OrderIds == {NaNId} \cup (1..MaxOrderId)

RowDomain ==
    { [order_id |-> o, order_date |-> d, product_names |-> it[1],
       categories |-> it[2], revenue |-> r] :
        o \in OrderIds, d \in 1..MaxDate, it \in Items, r \in Revenues }

SeqsUpTo(S, n) == UNION { [1..k -> S] : k \in 0..n }

\* One row per catalogue product, the first k products of the catalogue.
CatalogueRow(i) ==
    [order_id |-> 1 + (i % MaxOrderId), order_date |-> 1 + (i % MaxDate),
     product_names |-> ProductNames[i], categories |-> ProductCategories[i],
     revenue |-> 1 + (i % MaxRevenue)]

CatalogueRows(k) == [i \in 1..k |-> CatalogueRow(i)]

Datasets ==
    SeqsUpTo(RowDomain, MaxRows)
    \cup { CatalogueRows(k) \o s :
             k \in (DefaultLimit)..Len(ProductNames),
             s \in SeqsUpTo(RowDomain, MaxExtraRows) }

FilterCategories == {AllCategories, "Electronics", "Office", "office"}

VARIABLES
    raw_data,            \* the loaded dataset
    start_date,          \* the arguments of the last pass
    end_date,
    selected_category,
    filtered_data,       \* the values process_data_changes computed
    revenue_data,
    category_data,
    top_products_data,
    total_revenue,
    total_orders,
    avg_order_value,
    top_category,
    outcome,             \* "init", "returned" or "raised"
    passes,              \* the passes made so far
    series_columns,      \* the column names of the three series
    state_raw_data,      \* taipy-app.py: state.raw_data, the table shown
    categories,          \* taipy-app.py: the category list offered
    selected_tab,        \* taipy-app.py: the chart shown
    changed_var,         \* taipy-app.py: the var_name of the last on_change
    csv_data,            \* gradio_app.py: the loaded dataset
    table_data,          \* gradio_app.py: the table update_dashboard returns
    source,              \* the CSV file a loader reads
    loaded,              \* the frame a loader left behind
    variant,             \* the program whose start-up ran
    startup,             \* "start", "ready" or "fatal"
    cache,               \* gradio_app.py: the TTLCache of get_unique_categories
    now,                 \* the cache's timer, in seconds
    unique_categories,   \* the list the last get_unique_categories() returned
    called_at,           \* the time of that call
    running,             \* app.py: the process is alive
    monitor_pc,          \* weather_monitor: "fetch", "alert", "sleep" or "dead"
    monitor_city,        \* weather_monitor: its local city
    monitor_result,      \* weather_monitor: its local result
    monitor_alerts,      \* weather_monitor: the warnings of the iteration
    monitor_raised,      \* weather_monitor: the iteration ended in the except
    handler_pc,          \* a request handler: "idle" or "fetching"
    handler_city,        \* the handler's city
    handler_response,    \* the upstream outcome of the handler's request
    handler_result,      \* the value the handler returned last
    nrows,               \* data_generation.py: the argument of the call
    order_data,          \* the frame generate_order_data returned
    gen_outcome          \* "init", "returned" or "raised"

\* The values of one pass.
passVars ==
    << start_date, end_date, selected_category, filtered_data, revenue_data,
       category_data, top_products_data, total_revenue, total_orders,
       avg_order_value, top_category, outcome, passes, series_columns >>

appVars == << state_raw_data, categories, selected_tab, changed_var >>

gradioVars == << csv_data, table_data >>

loadVars == << source, loaded, variant, startup >>

cacheVars == << cache, now, unique_categories, called_at >>

weatherVars ==
    << running, monitor_pc, monitor_city, monitor_result, monitor_alerts,
       monitor_raised, handler_pc, handler_city, handler_response,
       handler_result >>

genVars == << nrows, order_data, gen_outcome >>

\* The variables of the programs beside the dashboards and their loaders.
otherVars == << cacheVars, weatherVars, genVars >>

vars == << raw_data, passVars, appVars, gradioVars, loadVars, otherVars >>

(***************************************************************************)
(* pandas building blocks.                                                 *)
(***************************************************************************)
\* DataFrame.empty
Empty(df) == Len(df) = 0

\* df[mask]: the rows at the positions of the boolean mask, in their order.
RECURSIVE SelectRows(_, _, _)
SelectRows(df, mask, k) ==
    IF k > Len(df) THEN << >>
    ELSE IF k \in mask THEN << df[k] >> \o SelectRows(df, mask, k + 1)
    ELSE SelectRows(df, mask, k + 1)

Mask(df, mask) == SelectRows(df, mask, 1)

\* Series.sum of the revenue column.
RECURSIVE SumRevenue(_)
SumRevenue(df) ==
    IF df = << >> THEN 0 ELSE Head(df).revenue + SumRevenue(Tail(df))

\* The group keys of groupby(col): the values present, missing cells dropped.
GroupKeys(df, col) ==
    { df[i][col] : i \in { j \in 1..Len(df) : ~IsNull(col, df[j][col]) } }

\* The keys of a groupby in the order groupby yields them (sorted).
RECURSIVE SortedKeys(_, _)
SortedKeys(S, col) ==
    IF S = {} THEN << >>
    ELSE LET m == CHOOSE x \in S :
                    \A y \in S : KeyRank(col, x) <= KeyRank(col, y)
         IN  << m >> \o SortedKeys(S \ {m}, col)

\* A groupby whose sum runs over all rows instead of the rows of the group.
GroupBySumAllRows(df, col) ==
    LET keys == SortedKeys(GroupKeys(df, col), col)
    IN  [ i \in 1..Len(keys) |->
            (col :> keys[i]) @@ ("revenue" :> SumRevenue(df)) ]

\* df.groupby(col)["revenue"].sum().reset_index()
GroupBySum(df, col) ==
    LET keys == SortedKeys(GroupKeys(df, col), col)
    IN  [ i \in 1..Len(keys) |->
            (col :> keys[i])
            @@ ("revenue" :>
                  SumRevenue(Mask(df, { j \in 1..Len(df) : df[j][col] = keys[i] }))) ]

Remove(s, i) == SubSeq(s, 1, i - 1) \o SubSeq(s, i + 1, Len(s))

\* sort_values(col, ascending): rows of equal value keep their order (the
\* order of ties is left to the sorting algorithm by pandas).
RECURSIVE SortValues(_, _, _)
SortValues(s, col, ascending) ==
    IF s = << >> THEN << >>
    ELSE LET Before(x, y) ==
                 IF ascending THEN KeyRank(col, x) <= KeyRank(col, y)
                 ELSE KeyRank(col, x) >= KeyRank(col, y)
             best == CHOOSE i \in 1..Len(s) :
                       /\ \A j \in 1..Len(s) : Before(s[i][col], s[j][col])
                       /\ \A j \in 1..(i - 1) : s[j][col] # s[i][col]
         IN  << s[best] >> \o SortValues(Remove(s, best), col, ascending)

\* head(n)
HeadRows(s, n) == SubSeq(s, 1, Min(n, Len(s)))

\* a / b rounded to the nearest integer, ties to even (b > 0).
RoundDiv(a, b) ==
    LET q == a \div b
        r == a % b
    IN  IF 2 * r < b THEN q
        ELSE IF 2 * r > b THEN q + 1
        ELSE IF q % 2 = 0 THEN q ELSE q + 1

\* f"${x:,.2f}" of x = num / den dollars: the cents the string shows.
FormatMoney(num, den) == RoundDiv(100 * num, den)

(***************************************************************************)
(* taipy_logic.py                                                          *)
(***************************************************************************)
\* pd.to_datetime(date): the timestamp of the date's midnight; with order
\* dates that carry no time of day the day number stands for it.
ToDatetime(date) == date

\* get_date_range
GetDateRange(df) ==
    IF Empty(df) THEN << DefaultStartDate, DefaultEndDate >>
    ELSE LET dates == { df[i].order_date : i \in 1..Len(df) }
         IN  << CHOOSE d \in dates : \A e \in dates : d <= e,
                CHOOSE d \in dates : \A e \in dates : d >= e >>

\* Series.dropna().unique() of column col: the values present, each once, in
\* the order of their first appearance.
RECURSIVE DropNaUnique(_, _)
DropNaUnique(df, col) ==
    IF df = << >> THEN << >>
    ELSE LET front == DropNaUnique(SubSeq(df, 1, Len(df) - 1), col)
             last == df[Len(df)][col]
         IN  IF IsNull(col, last) \/ \E i \in 1..Len(front) : front[i] = last
             THEN front
             ELSE Append(front, last)

\* get_categories_list listing the categories in sorted order.
GetCategoriesListSorted(df) ==
    IF Empty(df) THEN << AllCategories >>
    ELSE << AllCategories >>
         \o SortedKeys(GroupKeys(df, "categories"), "categories")

\* get_categories_list
GetCategoriesList(df) ==
    IF Empty(df) THEN << AllCategories >>
    ELSE << AllCategories >> \o DropNaUnique(df, "categories")

\* DateMask with the end of the range left out.
DateMaskEndExclusive(df, start, end) ==
    { i \in 1..Len(df) :
        /\ df[i].order_date >= ToDatetime(start)
        /\ df[i].order_date < ToDatetime(end) }

\* The date mask of filter_data_by_date_and_category.
DateMask(df, start, end) ==
    { i \in 1..Len(df) :
        /\ df[i].order_date >= ToDatetime(start)
        /\ df[i].order_date <= ToDatetime(end) }

\* str.lower on the category labels of the model.
Lower(s) == IF s = "Office" THEN "office" ELSE s

\* CategoryMask comparing without regard to letter case.
CategoryMaskIgnoreCase(df, category) ==
    { i \in 1..Len(df) :
        /\ ~IsNull("categories", df[i].categories)
        /\ Lower(df[i].categories) = Lower(category) }

\* The category mask: == on a missing cell is False.
CategoryMask(df, category) ==
    { i \in 1..Len(df) :
        /\ ~IsNull("categories", df[i].categories)
        /\ df[i].categories = category }

\* filter_data_by_date_and_category putting a reversed range in order first.
FilterDataByDateAndCategoryEitherOrder(df, start, end, category) ==
    IF Empty(df) THEN df
    ELSE LET by_date == Mask(df, DateMask(df, Min(start, end), Max(start, end)))
         IN  IF category # AllCategories
             THEN Mask(by_date, CategoryMask(by_date, category))
             ELSE by_date

\* filter_data_by_date_and_category
FilterDataByDateAndCategory(df, start, end, category) ==
    IF Empty(df) THEN df
    ELSE LET by_date == Mask(df, DateMask(df, start, end))
         IN  IF category # AllCategories
             THEN Mask(by_date, CategoryMask(by_date, category))
             ELSE by_date

\* create_revenue_data ordering its rows by revenue instead of by date.
CreateRevenueDataByRevenue(df) ==
    IF Empty(df) THEN << >>
    ELSE SortValues(GroupBySum(df, "order_date"), "revenue", TRUE)

\* create_revenue_data
CreateRevenueData(df) ==
    IF Empty(df) THEN << >>
    ELSE SortValues(GroupBySum(df, "order_date"), "order_date", TRUE)

\* create_category_data without its sort_values.
CreateCategoryDataUnsorted(df) ==
    IF Empty(df) THEN << >> ELSE GroupBySum(df, "categories")

\* create_category_data
CreateCategoryData(df) ==
    IF Empty(df) THEN << >>
    ELSE SortValues(GroupBySum(df, "categories"), "revenue", FALSE)

\* create_top_products_data sorting ascending.
CreateTopProductsDataAscending(df, limit) ==
    IF Empty(df) THEN << >>
    ELSE HeadRows(SortValues(GroupBySum(df, "product_names"), "revenue", TRUE),
                  limit)

\* create_top_products_data
CreateTopProductsData(df, limit) ==
    IF Empty(df) THEN << >>
    ELSE HeadRows(SortValues(GroupBySum(df, "product_names"), "revenue", FALSE),
                  limit)

\* The columns of groupby(col)["revenue"].sum().reset_index().
GroupBySumColumns(col) == << col, "revenue" >>

\* The columns of the frames create_revenue_data, create_category_data and
\* create_top_products_data return: pd.DataFrame(columns=[...]) for an empty
\* input, the columns of the grouped sum otherwise.
CreateRevenueDataColumns(df) ==
    IF Empty(df) THEN << "order_date", "revenue" >>
    ELSE GroupBySumColumns("order_date")

CreateCategoryDataColumns(df) ==
    IF Empty(df) THEN << "categories", "revenue" >>
    ELSE GroupBySumColumns("categories")

CreateTopProductsDataColumns(df) ==
    IF Empty(df) THEN << "product_names", "revenue" >>
    ELSE GroupBySumColumns("product_names")

\* count() in place of nunique(): every row with a value counts.
CountNotNull(df, col) ==
    Cardinality({ i \in 1..Len(df) : ~IsNull(col, df[i][col]) })

\* Series.nunique of the order_id column: missing cells are not counted.
NUnique(df, col) ==
    Cardinality({ df[i][col] : i \in 1..Len(df) }
                \ { v \in { df[i][col] : i \in 1..Len(df) } : IsNull(col, v) })

\* Series.idxmax: the label of the first largest value. Of an empty series
\* it raises ValueError.
IdxMaxRaises(s) == s = << >>

IdxMax(s, col) ==
    LET first == CHOOSE i \in 1..Len(s) :
                   /\ \A j \in 1..Len(s) : s[i].revenue >= s[j].revenue
                   /\ \A j \in 1..(i - 1) : s[j].revenue < s[i].revenue
    IN  s[first][col]

\* calculate_metrics reaching its idxmax on an empty frame as well.
CalculateMetricsRaisesUnguarded(df) ==
    IdxMaxRaises(GroupBySum(df, "categories"))

\* calculate_metrics raises when its idxmax does: on a non-empty frame in
\* which no row has a category.
CalculateMetricsRaises(df) ==
    /\ ~Empty(df)
    /\ IdxMaxRaises(GroupBySum(df, "categories"))

\* calculate_metrics
CalculateMetrics(df) ==
    IF Empty(df)
    THEN [total_revenue |-> 0, total_orders |-> 0, avg_order_value |-> 0,
          top_category |-> NotAvailable]
    ELSE LET revenue == SumRevenue(df)
             orders == NUnique(df, "order_id")
         IN  [total_revenue |-> FormatMoney(revenue, 1),
              total_orders |-> orders,
              avg_order_value |-> FormatMoney(revenue, Max(orders, 1)),
              top_category |->
                  IF ~Empty(df)
                  THEN IdxMax(GroupBySum(df, "categories"), "categories")
                  ELSE NotAvailable]

\* should_apply_changes
ShouldApplyChanges(var_name) ==
    var_name \in {"start_date", "end_date", "selected_category"}

(***************************************************************************)
(* The parts of the state that belong to another program, at rest.         *)
(***************************************************************************)
\* The file read_csv looks for and does not find.
NoFile == [exists |-> FALSE, columns |-> {}, rows |-> << >>]

\* pd.DataFrame(): no columns, no rows.
EmptyFrame == [columns |-> {}, rows |-> << >>]

\* The three empty frames taipy-app.py starts with.
DefaultColumns ==
    [revenue_data |-> << "order_date", "revenue" >>,
     category_data |-> << "categories", "revenue" >>,
     top_products_data |-> << "product_names", "revenue" >>]

NoApp ==
    /\ state_raw_data = << >>
    /\ categories = << >>
    /\ selected_tab = "none"
    /\ changed_var = "none"

NoGradio == csv_data = << >> /\ table_data = << >>

NoLoad ==
    /\ source = NoFile
    /\ loaded = EmptyFrame
    /\ variant = "none"
    /\ startup = "start"

\* No cache entry, and no result of a fetch.
NoEntry == [present |-> FALSE, value |-> << >>, expires |-> 0]

\* A JSON value of the weather API: a number, or null.
Number(n) == << "number", n >>

Null == << "null", 0 >>

NoResult == [city |-> "none", status |-> "none", error |-> "none",
             temperature |-> Null, humidity |-> Null, description |-> "none"]

NoResponse == [kind |-> "none", code |-> 0, wellformed |-> FALSE,
               temp |-> Null, humidity |-> Null, description |-> "none",
               message |-> "none"]

\* The time of a call that was not made.
NeverCalled == 0 - 1

NoCache ==
    /\ cache = NoEntry
    /\ now = 0
    /\ unique_categories = << >>
    /\ called_at = NeverCalled

\* No dashboard pass was made and no dataset is loaded.
NoPass ==
    /\ raw_data = << >>
    /\ start_date = DefaultStartDate
    /\ end_date = DefaultEndDate
    /\ selected_category = AllCategories
    /\ filtered_data = << >>
    /\ revenue_data = << >>
    /\ category_data = << >>
    /\ top_products_data = << >>
    /\ total_revenue = 0
    /\ total_orders = 0
    /\ avg_order_value = 0
    /\ top_category = NotAvailable
    /\ outcome = "init"
    /\ passes = 0
    /\ series_columns = DefaultColumns

NoWeather ==
    /\ running = FALSE
    /\ monitor_pc = "none"
    /\ monitor_city = "none"
    /\ monitor_result = NoResult
    /\ monitor_alerts = {}
    /\ monitor_raised = FALSE
    /\ handler_pc = "none"
    /\ handler_city = "none"
    /\ handler_response = NoResponse
    /\ handler_result = NoResult

NoGen ==
    /\ nrows = 0
    /\ order_data = << >>
    /\ gen_outcome = "init"

(***************************************************************************)
(* The state machine.                                                      *)
(***************************************************************************)
Init ==
    /\ raw_data \in Datasets
    /\ start_date = GetDateRange(raw_data)[1]
    /\ end_date = GetDateRange(raw_data)[2]
    /\ selected_category = AllCategories
    /\ filtered_data = << >>
    /\ revenue_data = << >>
    /\ category_data = << >>
    /\ top_products_data = << >>
    /\ total_revenue = 0
    /\ total_orders = 0
    /\ avg_order_value = 0
    /\ top_category = NotAvailable
    /\ outcome = "init"
    /\ passes = 0
    /\ series_columns = DefaultColumns
    /\ NoApp
    /\ NoGradio
    /\ NoLoad
    /\ NoCache
    /\ NoWeather
    /\ NoGen

\* process_data_changes(raw_data, start, end, category). When
\* calculate_metrics raises, the exception leaves the function after the
\* filtered data and the three series were computed, and no metrics exist.
ProcessDataChanges(start, end, category) ==
    LET filtered == FilterDataByDateAndCategory(raw_data, start, end, category)
    IN  /\ passes < MaxPasses
        /\ passes' = passes + 1
        /\ start_date' = start
        /\ end_date' = end
        /\ selected_category' = category
        /\ filtered_data' = filtered
        /\ revenue_data' = CreateRevenueData(filtered)
        /\ category_data' = CreateCategoryData(filtered)
        /\ top_products_data' = CreateTopProductsData(filtered, DefaultLimit)
        /\ IF CalculateMetricsRaises(filtered)
           THEN /\ outcome' = "raised"
                /\ UNCHANGED << total_revenue, total_orders, avg_order_value,
                                top_category >>
           ELSE LET metrics == CalculateMetrics(filtered)
                IN  /\ outcome' = "returned"
                    /\ total_revenue' = metrics.total_revenue
                    /\ total_orders' = metrics.total_orders
                    /\ avg_order_value' = metrics.avg_order_value
                    /\ top_category' = metrics.top_category
        /\ series_columns' =
               [revenue_data |-> CreateRevenueDataColumns(filtered),
                category_data |-> CreateCategoryDataColumns(filtered),
                top_products_data |-> CreateTopProductsDataColumns(filtered)]
        /\ UNCHANGED << raw_data, appVars, gradioVars, loadVars, otherVars >>

Next ==
    \E start \in 1..MaxDate, end \in 1..MaxDate, category \in FilterCategories :
        ProcessDataChanges(start, end, category)

Spec == Init /\ [][Next]_vars

(***************************************************************************)
(* taipy-app.py                                                            *)
(***************************************************************************)
\* The datasets of the app: rows of two categories, rows without a category
\* and rows whose category reads "All Categories".
AppItems ==
    { << "Desk", "Office" >>, << "Laptop", "Electronics" >>,
      << "Desk", NaN >>, << "Paper", AllCategories >> }

AppRowDomain ==
    { [order_id |-> o, order_date |-> d, product_names |-> it[1],
       categories |-> it[2], revenue |-> r] :
        o \in 1..MaxOrderId, d \in 1..MaxDate, it \in AppItems,
        r \in 1..MaxRevenue }

AppDatasets == SeqsUpTo(AppRowDomain, MaxRows)

ChartOptions == {"Revenue Over Time", "Revenue by Category", "Top Products"}

\* The values a pass can leave in the state, as they are before the first.
InitialOutputs ==
    [revenue_data |-> << >>, category_data |-> << >>,
     top_products_data |-> << >>, series_columns |-> DefaultColumns,
     total_revenue |-> 0, total_orders |-> 0, avg_order_value |-> 0,
     top_category |-> NotAvailable]

\* The state after construction of the module: the dataset is loaded, the
\* category list is the expression of get_categories_list, the filters are
\* the whole date range and "All Categories".
AppInit ==
    /\ raw_data \in AppDatasets
    /\ categories = GetCategoriesList(raw_data)
    /\ start_date = GetDateRange(raw_data)[1]
    /\ end_date = GetDateRange(raw_data)[2]
    /\ selected_category = AllCategories
    /\ selected_tab = "Revenue Over Time"
    /\ changed_var = "none"
    /\ total_revenue = InitialOutputs.total_revenue
    /\ total_orders = InitialOutputs.total_orders
    /\ avg_order_value = InitialOutputs.avg_order_value
    /\ top_category = InitialOutputs.top_category
    /\ revenue_data = InitialOutputs.revenue_data
    /\ category_data = InitialOutputs.category_data
    /\ top_products_data = InitialOutputs.top_products_data
    /\ series_columns = InitialOutputs.series_columns
    /\ state_raw_data = raw_data
    /\ filtered_data = << >>
    /\ outcome = "init"
    /\ passes = 0
    /\ NoGradio
    /\ NoLoad
    /\ NoCache
    /\ NoWeather
    /\ NoGen

\* apply_changes that adds the orders of a pass to the count shown.
ApplyChangesResultCounting(df, start, end, category, before) ==
    LET by_date == Mask(df, DateMask(df, start, end))
        filtered == IF category # AllCategories
                    THEN Mask(by_date, CategoryMask(by_date, category))
                    ELSE by_date
        revenue == SumRevenue(filtered)
        orders == NUnique(filtered, "order_id")
        by_category == GroupBySum(filtered, "categories")
    IN  IF Empty(filtered)
        THEN [state_raw_data |-> filtered, revenue_data |-> << >>,
              category_data |-> << >>, top_products_data |-> << >>,
              series_columns |-> DefaultColumns, total_revenue |-> 0,
              total_orders |-> 0, avg_order_value |-> 0,
              top_category |-> NotAvailable, outcome |-> "returned"]
        ELSE [state_raw_data |-> filtered,
              revenue_data |->
                  SortValues(GroupBySum(filtered, "order_date"),
                             "order_date", TRUE),
              category_data |-> SortValues(by_category, "revenue", FALSE),
              top_products_data |->
                  HeadRows(SortValues(GroupBySum(filtered, "product_names"),
                                      "revenue", FALSE),
                           AppLimit),
              series_columns |->
                  [revenue_data |-> GroupBySumColumns("order_date"),
                   category_data |-> GroupBySumColumns("categories"),
                   top_products_data |-> GroupBySumColumns("product_names")],
              total_revenue |-> FormatMoney(revenue, 1),
              total_orders |-> before.total_orders + orders,
              avg_order_value |-> FormatMoney(revenue, Max(orders, 1)),
              top_category |->
                  IF IdxMaxRaises(by_category) THEN before.top_category
                  ELSE IdxMax(by_category, "categories"),
              outcome |->
                  IF IdxMaxRaises(by_category) THEN "raised" ELSE "returned"]

\* apply_changes: the values of the state after the pass over the loaded
\* dataset df, `before` holding the values before it. The assignments are
\* made one by one inside a try whose except prints and returns: when idxmax
\* raises, every value assigned earlier stays and top_category keeps the
\* value it had.
ApplyChangesResult(df, start, end, category, before) ==
    LET by_date == Mask(df, DateMask(df, start, end))
        filtered == IF category # AllCategories
                    THEN Mask(by_date, CategoryMask(by_date, category))
                    ELSE by_date
        revenue == SumRevenue(filtered)
        orders == NUnique(filtered, "order_id")
        by_category == GroupBySum(filtered, "categories")
    IN  IF Empty(filtered)
        THEN [state_raw_data |-> filtered, revenue_data |-> << >>,
              category_data |-> << >>, top_products_data |-> << >>,
              series_columns |-> DefaultColumns, total_revenue |-> 0,
              total_orders |-> 0, avg_order_value |-> 0,
              top_category |-> NotAvailable, outcome |-> "returned"]
        ELSE [state_raw_data |-> filtered,
              revenue_data |->
                  SortValues(GroupBySum(filtered, "order_date"),
                             "order_date", TRUE),
              category_data |-> SortValues(by_category, "revenue", FALSE),
              top_products_data |->
                  HeadRows(SortValues(GroupBySum(filtered, "product_names"),
                                      "revenue", FALSE),
                           AppLimit),
              series_columns |->
                  [revenue_data |-> GroupBySumColumns("order_date"),
                   category_data |-> GroupBySumColumns("categories"),
                   top_products_data |-> GroupBySumColumns("product_names")],
              total_revenue |-> FormatMoney(revenue, 1),
              total_orders |-> orders,
              avg_order_value |-> FormatMoney(revenue, Max(orders, 1)),
              top_category |->
                  IF IdxMaxRaises(by_category) THEN before.top_category
                  ELSE IdxMax(by_category, "categories"),
              outcome |->
                  IF IdxMaxRaises(by_category) THEN "raised" ELSE "returned"]

\* apply_changes(state) with the filter values start, end and category in the
\* state. It reads the module's raw_data and writes the state only.
ApplyChanges(start, end, category) ==
    \E after \in { ApplyChangesResult(raw_data, start, end, category,
                        [total_orders |-> total_orders,
                         top_category |-> top_category]) } :
        /\ passes' = passes + 1
        /\ start_date' = start
        /\ end_date' = end
        /\ selected_category' = category
        /\ state_raw_data' = after.state_raw_data
        /\ revenue_data' = after.revenue_data
        /\ category_data' = after.category_data
        /\ top_products_data' = after.top_products_data
        /\ series_columns' = after.series_columns
        /\ total_revenue' = after.total_revenue
        /\ total_orders' = after.total_orders
        /\ avg_order_value' = after.avg_order_value
        /\ top_category' = after.top_category
        /\ outcome' = after.outcome
        /\ UNCHANGED << raw_data, categories, selected_tab, filtered_data,
                        gradioVars, loadVars, otherVars >>

\* on_init
OnInit ==
    /\ outcome = "init"
    /\ ApplyChanges(start_date, end_date, selected_category)
    /\ UNCHANGED changed_var

\* on_change that makes a pass for every variable of the state.
OnChangeEveryVariable(var_name, var_value) ==
    /\ outcome # "init"
    /\ passes < MaxAppPasses
    /\ changed_var' = var_name
    /\ CASE var_name = "start_date" ->
              ApplyChanges(var_value, end_date, selected_category)
         [] var_name = "end_date" ->
              ApplyChanges(start_date, var_value, selected_category)
         [] var_name = "selected_category" ->
              ApplyChanges(start_date, end_date, var_value)
         [] OTHER ->
              ApplyChanges(start_date, end_date, selected_category)

\* on_change(state, var_name, var_value), the state's variable var_name
\* holding var_value already.
OnChange(var_name, var_value) ==
    /\ outcome # "init"
    /\ passes < MaxAppPasses
    /\ changed_var' = var_name
    /\ CASE var_name = "start_date" ->
              ApplyChanges(var_value, end_date, selected_category)
         [] var_name = "end_date" ->
              ApplyChanges(start_date, var_value, selected_category)
         [] var_name = "selected_category" ->
              ApplyChanges(start_date, end_date, var_value)
         [] OTHER ->
              /\ selected_tab' = var_value
              /\ UNCHANGED << raw_data, passVars, state_raw_data, categories,
                              gradioVars, loadVars, otherVars >>

AppNext ==
    \/ OnInit
    \/ \E var_value \in 1..MaxDate : OnChange("start_date", var_value)
    \/ \E var_value \in 1..MaxDate : OnChange("end_date", var_value)
    \/ \E i \in 1..Len(categories) : OnChange("selected_category", categories[i])
    \/ \E var_value \in ChartOptions : OnChange("selected_tab", var_value)

SpecApp == AppInit /\ [][AppNext]_vars

(***************************************************************************)
(* gradio_app.py                                                           *)
(***************************************************************************)
\* The rows of sales_data.csv as load_csv_data reads them: no revenue column,
\* a total column that need not equal price * quantity.
GradioItems ==
    { << "Laptop", "electronics" >>, << "Desk", "Office" >>, << "Laptop", NaN >> }

GradioRowDomain ==
    { [order_id |-> o, order_date |-> d, product_names |-> it[1],
       categories |-> it[2], quantity |-> q, price |-> p,
       total |-> p * q + e] :
        o \in {NaNId, 1}, d \in 1..MaxDate, it \in GradioItems,
        q \in 1..MaxQuantity, p \in 1..MaxPrice, e \in 0..MaxTotalError }

GradioDatasets == SeqsUpTo(GradioRowDomain, MaxRows)

\* The values of the dropdown for the model's datasets, and a label typed in
\* lower case.
GradioFilterCategories ==
    {AllCategories, "Electronics", "Office", "electronics"}

\* str.capitalize on the labels of the model: first letter upper case, every
\* other letter lower case.
Capitalize(s) ==
    CASE s = "electronics" -> "Electronics"
      [] s = "office" -> "Office"
      [] s = AllCategories -> "All categories"
      [] s = NotAvailable -> "N/a"
      [] OTHER -> s

\* get_unique_categories: the sorted distinct labels, each capitalized.
GetUniqueCategories(df) ==
    LET cats == SortedKeys(GroupKeys(df, "categories"), "categories")
    IN  [i \in 1..Len(cats) |-> Capitalize(cats[i])]

\* datetime.datetime.now(): a day after the default range.
Today == DefaultEndDate + 1

\* get_date_range of gradio_app.py, with create_dashboard's replacement of
\* None, None by the current day.
GradioGetDateRange(df) ==
    IF Empty(df) THEN << Today, Today >> ELSE GetDateRange(df)

\* The category mask comparing the label as stored.
GradioCategoryMaskStored(df, category) ==
    { i \in 1..Len(df) :
        /\ ~IsNull("categories", df[i].categories)
        /\ df[i].categories = category }

\* The category mask of filter_data: the capitalized label is compared; a
\* missing label compares as <NA>, which the indexer takes as False.
GradioCategoryMask(df, category) ==
    { i \in 1..Len(df) :
        /\ ~IsNull("categories", df[i].categories)
        /\ Capitalize(df[i].categories) = category }

\* filter_data
FilterData(df, start, end, category) ==
    LET by_date == Mask(df, DateMask(df, start, end))
    IN  IF category # AllCategories
        THEN Mask(by_date, GradioCategoryMask(by_date, category))
        ELSE by_date

\* df['revenue'] = df['price'] * df['quantity']
WithRevenue(df) ==
    [i \in 1..Len(df) |->
        [order_id |-> df[i].order_id, order_date |-> df[i].order_date,
         product_names |-> df[i].product_names,
         categories |-> df[i].categories, quantity |-> df[i].quantity,
         price |-> df[i].price, total |-> df[i].total,
         revenue |-> df[i].price * df[i].quantity]]

\* get_dashboard_stats: revenue in dollars, the average as the pair
\* << total_revenue, total_orders >> of the quotient it is (0 as << 0, 1 >>).
GetDashboardStats(df, start, end, category) ==
    LET filtered == WithRevenue(FilterData(df, start, end, category))
        revenue == SumRevenue(filtered)
        orders == NUnique(filtered, "order_id")
        cat_revenues ==
            SortValues(GroupBySum(filtered, "categories"), "revenue", FALSE)
    IN  IF Empty(filtered)
        THEN [total_revenue |-> 0, total_orders |-> 0,
              avg_order_value |-> << 0, 1 >>, top_category |-> NotAvailable]
        ELSE [total_revenue |-> revenue,
              total_orders |-> orders,
              avg_order_value |->
                  IF orders # 0 THEN << revenue, orders >> ELSE << 0, 1 >>,
              top_category |->
                  Capitalize(IF ~Empty(cat_revenues)
                             THEN cat_revenues[1].categories
                             ELSE NotAvailable)]

\* The place of row r in sort_values(by=["order_id", "order_date"],
\* ascending=[True, False]): a missing order_id goes last.
TableBefore(r, t) ==
    LET a == IF r.order_id = NaNId THEN MaxOrderId + 1 ELSE r.order_id
        b == IF t.order_id = NaNId THEN MaxOrderId + 1 ELSE t.order_id
    IN  a < b \/ (a = b /\ r.order_date >= t.order_date)

RECURSIVE SortTable(_)
SortTable(df) ==
    IF df = << >> THEN << >>
    ELSE LET best == CHOOSE i \in 1..Len(df) :
                       /\ \A j \in 1..Len(df) : TableBefore(df[i], df[j])
                       /\ \A j \in 1..(i - 1) : ~TableBefore(df[j], df[i])
         IN  << df[best] >> \o SortTable(Remove(df, best))

\* get_data_for_table
GetDataForTable(df, start, end, category) ==
    LET filtered == FilterData(df, start, end, category)
    IN  IF Empty(filtered) THEN << >> ELSE WithRevenue(SortTable(filtered))

\* rename(columns={'order_date': 'date'})
RenameDate(s) ==
    [i \in 1..Len(s) |-> [date |-> s[i].order_date, revenue |-> s[i].revenue]]

\* get_plot_data
GetPlotData(df, start, end, category) ==
    LET filtered == WithRevenue(FilterData(df, start, end, category))
    IN  IF Empty(filtered) THEN << >>
        ELSE RenameDate(GroupBySum(filtered, "order_date"))

\* get_revenue_by_category
GetRevenueByCategory(df, start, end, category) ==
    LET filtered == WithRevenue(FilterData(df, start, end, category))
    IN  IF Empty(filtered) THEN << >>
        ELSE SortValues(GroupBySum(filtered, "categories"), "revenue", FALSE)

\* get_top_products
GetTopProducts(df, start, end, category) ==
    LET filtered == WithRevenue(FilterData(df, start, end, category))
    IN  IF Empty(filtered) THEN << >>
        ELSE HeadRows(SortValues(GroupBySum(filtered, "product_names"),
                                 "revenue", FALSE),
                      GradioLimit)

\* The columns of the three frames: pd.DataFrame() has none.
GradioColumns(df, start, end, category) ==
    IF Empty(FilterData(df, start, end, category))
    THEN [revenue_data |-> << >>, category_data |-> << >>,
          top_products_data |-> << >>]
    ELSE [revenue_data |-> << "date", "revenue" >>,
          category_data |-> GroupBySumColumns("categories"),
          top_products_data |-> GroupBySumColumns("product_names")]

\* The module after load_csv_data() and create_dashboard(), before the
\* dashboard's initial load.
GradioInit ==
    /\ csv_data \in GradioDatasets
    /\ table_data = << >>
    /\ categories = << AllCategories >> \o GetUniqueCategories(csv_data)
    /\ start_date = GradioGetDateRange(csv_data)[1]
    /\ end_date = GradioGetDateRange(csv_data)[2]
    /\ selected_category = AllCategories
    /\ filtered_data = << >>
    /\ revenue_data = << >>
    /\ category_data = << >>
    /\ top_products_data = << >>
    /\ total_revenue = 0
    /\ total_orders = 0
    /\ avg_order_value = << 0, 1 >>
    /\ top_category = NotAvailable
    /\ outcome = "init"
    /\ passes = 0
    /\ series_columns =
           [revenue_data |-> << >>, category_data |-> << >>,
            top_products_data |-> << >>]
    /\ raw_data = << >>
    /\ state_raw_data = << >>
    /\ selected_tab = "none"
    /\ changed_var = "none"
    /\ NoLoad
    /\ cache = [present |-> TRUE, value |-> GetUniqueCategories(csv_data),
                expires |-> CacheTtl]
    /\ now = 0
    /\ unique_categories = GetUniqueCategories(csv_data)
    /\ called_at = 0
    /\ NoWeather
    /\ NoGen

\* update_dashboard(start_date, end_date, category); filtered_data is the
\* frame filter_data hands to each of the functions it calls.
UpdateDashboard(start, end, category) ==
    LET stats == GetDashboardStats(csv_data, start, end, category)
    IN  /\ passes < MaxPasses
        /\ passes' = passes + 1
        /\ start_date' = start
        /\ end_date' = end
        /\ selected_category' = category
        /\ filtered_data' = FilterData(csv_data, start, end, category)
        /\ total_revenue' = stats.total_revenue
        /\ total_orders' = stats.total_orders
        /\ avg_order_value' = stats.avg_order_value
        /\ top_category' = stats.top_category
        /\ revenue_data' = GetPlotData(csv_data, start, end, category)
        /\ category_data' = GetRevenueByCategory(csv_data, start, end, category)
        /\ top_products_data' = GetTopProducts(csv_data, start, end, category)
        /\ series_columns' = GradioColumns(csv_data, start, end, category)
        /\ table_data' = GetDataForTable(csv_data, start, end, category)
        /\ outcome' = "returned"
        /\ UNCHANGED << csv_data, categories, raw_data, state_raw_data,
                        selected_tab, changed_var, loadVars, otherVars >>

GradioNext ==
    \E start \in 1..MaxDate, end \in 1..MaxDate,
       category \in GradioFilterCategories :
        UpdateDashboard(start, end, category)

SpecGradio == GradioInit /\ [][GradioNext]_vars

(***************************************************************************)
(* gradio_app.py: the TTL cache of get_unique_categories.                  *)
(*                                                                         *)
(* cache = TTLCache(maxsize=128, ttl=300) holds one entry, the function    *)
(* having no arguments: the list and the time it expires, the time of its  *)
(* insertion plus the ttl. The cache reads an entry as long as the timer   *)
(* is before that time.                                                    *)
(***************************************************************************)
MaxNow == 900

\* The files load_csv_data can read: rows that differ in their category.
CacheRowDomain ==
    { [order_id |-> 1, order_date |-> 1, product_names |-> it[1],
       categories |-> it[2], quantity |-> 1, price |-> 1, total |-> 1] :
        it \in GradioItems }

CacheDatasets == SeqsUpTo(CacheRowDomain, MaxRows)

\* The seconds that pass between two events: just less than the ttl, the
\* ttl, just more.
Delays == {CacheTtl - 1, CacheTtl, CacheTtl + 1}

\* An entry read one second longer than TTLCache reads it.
CacheExpiredLate(entry, time) == ~(time <= entry.expires)

\* TTLCache.__getitem__: the entry is expired unless timer() < expires.
CacheExpired(entry, time) == ~(time < entry.expires)

\* The lookup of @cached(cache): a hit is an entry that has not expired.
CacheHit(entry, time) == entry.present /\ ~CacheExpired(entry, time)

\* TTLCache.__setitem__: the entry expires ttl seconds after its insertion.
CacheEntry(value, time) ==
    [present |-> TRUE, value |-> value, expires |-> time + CacheTtl]

\* gradio_app.py after load_csv_data() at import: the cache is empty.
CacheInit ==
    /\ csv_data \in CacheDatasets
    /\ table_data = << >>
    /\ NoCache
    /\ NoPass
    /\ NoApp
    /\ NoLoad
    /\ NoWeather
    /\ NoGen

\* A call of get_unique_categories(): the memoized list on a hit, otherwise
\* the list computed from csv_data, which is stored and returned.
GetUniqueCategoriesCall ==
    /\ called_at' = now
    /\ IF CacheHit(cache, now)
       THEN /\ unique_categories' = cache.value
            /\ UNCHANGED cache
       ELSE /\ unique_categories' = GetUniqueCategories(csv_data)
            /\ cache' = CacheEntry(GetUniqueCategories(csv_data), now)
    /\ UNCHANGED << now, csv_data, table_data, raw_data, passVars, appVars,
                    loadVars, weatherVars, genVars >>

\* A call of load_csv_data(): the file is read again into csv_data.
ReloadCsvData ==
    /\ \E df \in CacheDatasets : csv_data' = df
    /\ UNCHANGED << table_data, raw_data, passVars, appVars, loadVars,
                    otherVars >>

\* Time passes.
Tick ==
    /\ \E d \in Delays :
         /\ now + d <= MaxNow
         /\ now' = now + d
    /\ UNCHANGED << cache, unique_categories, called_at, gradioVars, raw_data,
                    passVars, appVars, loadVars, weatherVars, genVars >>

CacheNext ==
    \/ GetUniqueCategoriesCall
    \/ ReloadCsvData
    \/ Tick

SpecCache == CacheInit /\ [][CacheNext]_vars

(***************************************************************************)
(* The loaders: load_and_process_csv_data of taipy_logic.py, the start of  *)
(* taipy-app.py and load_csv_data of gradio_app.py.                        *)
(*                                                                         *)
(* A CSV file is its set of columns and its rows; a row maps each numeric  *)
(* column the file has to a value. The columns order_id, order_date,       *)
(* product_names and categories are in every file and carry no values      *)
(* here.                                                                   *)
(***************************************************************************)
NumericColumns == {"quantity", "price", "total", "revenue"}

OtherColumns == {"order_id", "order_date", "product_names", "categories"}

Sources ==
    {NoFile}
    \cup UNION { { [exists |-> TRUE, columns |-> cs, rows |-> rs] :
                     rs \in SeqsUpTo([cs -> 1..MaxCell], MaxSourceRows) } :
                   cs \in SUBSET NumericColumns }

\* pd.read_csv of a file that exists.
ReadCsv(src) ==
    [columns |-> src.columns \cup OtherColumns, rows |-> src.rows]

\* df["revenue"] = values
SetRevenue(df, values) ==
    [columns |-> df.columns \cup {"revenue"},
     rows |-> [i \in 1..Len(df.rows) |->
                 [c \in DOMAIN df.rows[i] \cup {"revenue"} |->
                     IF c = "revenue" THEN values[i] ELSE df.rows[i][c]]]]

\* The revenue step raises KeyError when it has to multiply a column the
\* file does not have.
ProcessColumnsRaises(df) ==
    /\ "total" \notin df.columns
    /\ "revenue" \notin df.columns
    /\ ~({"quantity", "price"} \subseteq df.columns)

\* The revenue step with its first branch only.
ProcessColumnsTotalOnly(df) ==
    IF "total" \in df.columns
    THEN SetRevenue(df, [i \in 1..Len(df.rows) |-> df.rows[i]["total"]])
    ELSE df

\* The revenue step: total is copied to revenue when the file has it;
\* otherwise revenue is computed when the file has none.
ProcessColumns(df) ==
    IF "total" \in df.columns
    THEN SetRevenue(df, [i \in 1..Len(df.rows) |-> df.rows[i]["total"]])
    ELSE IF "revenue" \notin df.columns
    THEN SetRevenue(df, [i \in 1..Len(df.rows) |->
                           df.rows[i]["quantity"] * df.rows[i]["price"]])
    ELSE df

\* load_and_process_csv_data: any exception of the try block ends in the
\* except branch, which returns pd.DataFrame().
LoadAndProcessCsvData(src) ==
    IF src = NoFile THEN EmptyFrame
    ELSE IF ProcessColumnsRaises(ReadCsv(src)) THEN EmptyFrame
    ELSE ProcessColumns(ReadCsv(src))

LoadInit ==
    /\ source \in Sources
    /\ loaded = EmptyFrame
    /\ variant = "none"
    /\ startup = "start"
    /\ raw_data = << >>
    /\ start_date = DefaultStartDate
    /\ end_date = DefaultEndDate
    /\ selected_category = AllCategories
    /\ filtered_data = << >>
    /\ revenue_data = << >>
    /\ category_data = << >>
    /\ top_products_data = << >>
    /\ total_revenue = 0
    /\ total_orders = 0
    /\ avg_order_value = 0
    /\ top_category = NotAvailable
    /\ outcome = "init"
    /\ passes = 0
    /\ series_columns = DefaultColumns
    /\ NoApp
    /\ NoGradio
    /\ NoCache
    /\ NoWeather
    /\ NoGen

\* A caller of taipy_logic.py loads the file: the function returns in every
\* case.
LoadAndProcessCsvDataCall ==
    /\ startup = "start"
    /\ variant' = "taipy_logic"
    /\ loaded' = LoadAndProcessCsvData(source)
    /\ startup' = "ready"
    /\ UNCHANGED << source, raw_data, passVars, appVars, gradioVars,
                    otherVars >>

\* The start of taipy-app.py: the load inside try/except, then the category
\* list, which indexes raw_data["categories"] outside the try and raises
\* KeyError on a frame without that column.
TaipyAppStartUp ==
    /\ startup = "start"
    /\ variant' = "taipy_app"
    /\ loaded' = LoadAndProcessCsvData(source)
    /\ startup' = IF "categories" \in loaded'.columns THEN "ready" ELSE "fatal"
    /\ UNCHANGED << source, raw_data, passVars, appVars, gradioVars,
                    otherVars >>

\* The start of gradio_app.py: load_csv_data() at import, with no try around
\* read_csv and no revenue step.
GradioLoadCsvData ==
    /\ startup = "start"
    /\ variant' = "gradio"
    /\ IF source = NoFile
       THEN loaded' = loaded /\ startup' = "fatal"
       ELSE loaded' = ReadCsv(source) /\ startup' = "ready"
    /\ UNCHANGED << source, raw_data, passVars, appVars, gradioVars,
                    otherVars >>

LoadNext ==
    \/ LoadAndProcessCsvDataCall
    \/ TaipyAppStartUp
    \/ GradioLoadCsvData

SpecLoad == LoadInit /\ [][LoadNext]_vars

(***************************************************************************)
(* grafana-loki-alloy_implementation/app.py: the weather service.          *)
(*                                                                         *)
(* A daemon thread runs weather_monitor while Flask serves the routes. The *)
(* upstream API answers a request with an HTTP response or the request     *)
(* ends in an exception. random.choice is a free choice; the log lines are *)
(* not part of the state.                                                  *)
(***************************************************************************)
MaxCities == 2

Ok == 200
HighTemperature == 30
LowTemperature == 0
HighHumidity == 80

Cities ==
    << "London", "New York", "Tokyo", "Paris", "Sydney", "Berlin", "Moscow",
       "Beijing", "Mumbai", "Cairo", "Rio de Janeiro", "Mexico City",
       "Toronto", "Seoul", "Bangkok" >>

\* The cities random.choice picks from, and the cities of a request path:
\* those and one the list does not have.
MonitoredCities == { Cities[i] : i \in 1..MaxCities }

PathCities == MonitoredCities \cup {"Atlantis"}

\* What the upstream API can do with a request: a 200 response whose body
\* has the three fields (a number or null each), a 200 response whose body
\* lacks 'main', a response with another status, a timeout, a connection
\* error, another exception of requests.
Responses ==
    { [kind |-> "response", code |-> Ok, wellformed |-> TRUE, temp |-> t,
       humidity |-> h, description |-> "clear sky", message |-> "none"] :
        t \in { Number(LowTemperature - 1), Number(HighTemperature + 1),
                Null },
        h \in { Number(HighHumidity + 1), Null } }
    \cup { [kind |-> "response", code |-> Ok, wellformed |-> FALSE,
            temp |-> Null, humidity |-> Null, description |-> "none",
            message |-> "none"] }
    \cup { [kind |-> "response", code |-> c, wellformed |-> FALSE,
            temp |-> Null, humidity |-> Null, description |-> "none",
            message |-> "none"] : c \in {401, 404, 500} }
    \cup { [kind |-> k, code |-> 0, wellformed |-> FALSE, temp |-> Null,
            humidity |-> Null, description |-> "none", message |-> m] :
              << k, m >> \in { << "timeout", "Read timed out." >>,
                               << "connection_error", "Connection refused" >>,
                               << "exception", "Exceeded 30 redirects." >> } }

\* f"HTTP {response.status_code}"
HttpError(code) ==
    CASE code = 401 -> "HTTP 401"
      [] code = 404 -> "HTTP 404"
      [] code = 500 -> "HTTP 500"
      [] OTHER -> "HTTP"

\* The dict of an error return.
ErrorResult(city, error) ==
    [city |-> city, status |-> "error", error |-> error, temperature |-> Null,
     humidity |-> Null, description |-> "none"]

\* The try block of fetch_weather_data: the exception that leaves it, or
\* "none" and the dict it returns.
TryFetch(city, response) ==
    CASE response.kind = "timeout" ->
           [exception |-> "Timeout", message |-> response.message,
            result |-> NoResult]
      [] response.kind = "connection_error" ->
           [exception |-> "ConnectionError", message |-> response.message,
            result |-> NoResult]
      [] response.kind = "exception" ->
           [exception |-> "RequestException", message |-> response.message,
            result |-> NoResult]
      [] response.code # Ok ->
           [exception |-> "none", message |-> "none",
            result |-> ErrorResult(city, HttpError(response.code))]
      [] ~response.wellformed ->
           [exception |-> "KeyError", message |-> "'main'",
            result |-> NoResult]
      [] OTHER ->
           [exception |-> "none", message |-> "none",
            result |-> [city |-> city, status |-> "success",
                        error |-> "none", temperature |-> response.temp,
                        humidity |-> response.humidity,
                        description |-> response.description]]

\* The dict of a call the exception leaves: the caller gets no result.
Raised(city) ==
    [city |-> city, status |-> "raised", error |-> "none",
     temperature |-> Null, humidity |-> Null, description |-> "none"]

\* fetch_weather_data without its last except clause.
FetchWeatherDataNarrow(city, response) ==
    LET try == TryFetch(city, response)
    IN  CASE try.exception = "none" -> try.result
          [] try.exception = "Timeout" -> ErrorResult(city, "timeout")
          [] try.exception = "ConnectionError" ->
               ErrorResult(city, "connection_error")
          [] OTHER -> Raised(city)

\* fetch_weather_data: the three except clauses turn every exception of the
\* try block into an error dict.
FetchWeatherData(city, response) ==
    LET try == TryFetch(city, response)
    IN  CASE try.exception = "none" -> try.result
          [] try.exception = "Timeout" -> ErrorResult(city, "timeout")
          [] try.exception = "ConnectionError" ->
               ErrorResult(city, "connection_error")
          [] OTHER -> ErrorResult(city, try.message)

\* The alert logic of weather_monitor raises TypeError when it compares a
\* value that is no number.
MonitorAlertsRaise(result) ==
    /\ result.status = "success"
    /\ \/ result.temperature = Null
       \/ result.humidity = Null

\* The warnings the alert logic logs before it ends or raises.
MonitorAlerts(result) ==
    IF result.status # "success" \/ result.temperature = Null THEN {}
    ELSE (IF result.temperature[2] > HighTemperature
          THEN {"high_temperature"}
          ELSE IF result.temperature[2] < LowTemperature
          THEN {"low_temperature"}
          ELSE {})
         \cup (IF result.humidity # Null /\ result.humidity[2] > HighHumidity
               THEN {"high_humidity"}
               ELSE {})

\* __main__: the monitor thread is started and Flask serves.
WeatherInit ==
    /\ running = TRUE
    /\ monitor_pc = "fetch"
    /\ monitor_city = "none"
    /\ monitor_result = NoResult
    /\ monitor_alerts = {}
    /\ monitor_raised = FALSE
    /\ handler_pc = "idle"
    /\ handler_city = "none"
    /\ handler_response = NoResponse
    /\ handler_result = NoResult
    /\ NoPass
    /\ NoApp
    /\ NoGradio
    /\ NoLoad
    /\ NoCache
    /\ NoGen

\* weather_monitor whose fetch leaves its result in a variable of the module.
MonitorFetchShared(city, response) ==
    /\ running
    /\ monitor_pc = "fetch"
    /\ monitor_city' = city
    /\ monitor_result' = FetchWeatherData(city, response)
    /\ handler_result' = monitor_result'
    /\ monitor_pc' = "alert"
    /\ UNCHANGED << running, monitor_alerts, monitor_raised, handler_pc,
                    handler_city, handler_response, raw_data, passVars,
                    appVars, gradioVars, loadVars, cacheVars, genVars >>

\* weather_monitor: city = random.choice(CITIES) and
\* result = fetch_weather_data(city).
MonitorFetch(city, response) ==
    /\ running
    /\ monitor_pc = "fetch"
    /\ monitor_city' = city
    /\ monitor_result' = FetchWeatherData(city, response)
    /\ monitor_pc' = "alert"
    /\ UNCHANGED << running, monitor_alerts, monitor_raised, handler_pc,
                    handler_city, handler_response, handler_result, raw_data,
                    passVars, appVars, gradioVars, loadVars, cacheVars,
                    genVars >>

\* weather_monitor whose loop has no except: an exception ends the thread.
MonitorAlertUncaught ==
    /\ running
    /\ monitor_pc = "alert"
    /\ monitor_alerts' = MonitorAlerts(monitor_result)
    /\ monitor_raised' = MonitorAlertsRaise(monitor_result)
    /\ monitor_pc' = IF MonitorAlertsRaise(monitor_result)
                     THEN "dead" ELSE "sleep"
    /\ UNCHANGED << running, monitor_city, monitor_result, handler_pc,
                    handler_city, handler_response, handler_result, raw_data,
                    passVars, appVars, gradioVars, loadVars, cacheVars,
                    genVars >>

\* weather_monitor: the alert logic. It ends at time.sleep(uniform(10, 30));
\* when it raises, the except logs the error and ends at time.sleep(30).
MonitorAlert ==
    /\ running
    /\ monitor_pc = "alert"
    /\ monitor_alerts' = MonitorAlerts(monitor_result)
    /\ monitor_raised' = MonitorAlertsRaise(monitor_result)
    /\ monitor_pc' = "sleep"
    /\ UNCHANGED << running, monitor_city, monitor_result, handler_pc,
                    handler_city, handler_response, handler_result, raw_data,
                    passVars, appVars, gradioVars, loadVars, cacheVars,
                    genVars >>

\* weather_monitor: time.sleep returns and `while True` starts the next
\* iteration.
MonitorWake ==
    /\ running
    /\ monitor_pc = "sleep"
    /\ monitor_pc' = "fetch"
    /\ UNCHANGED << running, monitor_city, monitor_result, monitor_alerts,
                    monitor_raised, handler_pc, handler_city, handler_response,
                    handler_result, raw_data, passVars, appVars, gradioVars,
                    loadVars, cacheVars, genVars >>

\* A step of the monitor thread.
MonitorStep ==
    \/ \E city \in MonitoredCities, response \in Responses :
         MonitorFetch(city, response)
    \/ MonitorAlert
    \/ MonitorWake

\* A request handler up to its call of fetch_weather_data(city).
HandlerCall(city) ==
    /\ running
    /\ handler_pc = "idle"
    /\ handler_pc' = "fetching"
    /\ handler_city' = city
    /\ UNCHANGED << running, monitor_pc, monitor_city, monitor_result,
                    monitor_alerts, monitor_raised, handler_response,
                    handler_result, raw_data, passVars, appVars, gradioVars,
                    loadVars, cacheVars, genVars >>

\* GET /weather: city = random.choice(CITIES)
GetRandomWeather == \E city \in MonitoredCities : HandlerCall(city)

\* GET /weather/<city>
GetWeatherForCity == \E city \in PathCities : HandlerCall(city)

\* The handler's fetch_weather_data returns and the handler answers with
\* jsonify(result).
HandlerReturn(response) ==
    /\ running
    /\ handler_pc = "fetching"
    /\ handler_response' = response
    /\ handler_result' = FetchWeatherData(handler_city, response)
    /\ handler_pc' = "idle"
    /\ UNCHANGED << running, monitor_pc, monitor_city, monitor_result,
                    monitor_alerts, monitor_raised, handler_city, raw_data,
                    passVars, appVars, gradioVars, loadVars, cacheVars,
                    genVars >>

\* The process is ended from outside; the daemon thread ends with it.
Terminate ==
    /\ running
    /\ running' = FALSE
    /\ UNCHANGED << monitor_pc, monitor_city, monitor_result, monitor_alerts,
                    monitor_raised, handler_pc, handler_city, handler_response,
                    handler_result, raw_data, passVars, appVars, gradioVars,
                    loadVars, cacheVars, genVars >>

WeatherNext ==
    \/ MonitorStep
    \/ GetRandomWeather
    \/ GetWeatherForCity
    \/ \E response \in Responses : HandlerReturn(response)
    \/ Terminate

SpecWeather == WeatherInit /\ [][WeatherNext]_vars

\* The monitor thread is scheduled again and again, requests.get ends within
\* its timeout and time.sleep returns: a monitor step that stays possible is
\* taken.
SpecWeatherFair == SpecWeather /\ WF_vars(MonitorStep)

(***************************************************************************)
(* taipy_implementation/data_generation.py: generate_order_data.           *)
(*                                                                         *)
(* A price is counted in cents (the integer drawn, before the division by  *)
(* 100), an order date in days after 2010-01-01 (the number drawn, before  *)
(* it is added to the start date and formatted), a customer name by the    *)
(* number it ends in.                                                      *)
(***************************************************************************)
MaxGenRows == 2
MaxNegativeRows == 1

\* (end_date - start_date).days for 2010-01-01 and 2023-12-31: fourteen years,
\* three of them leap years, less a day.
DateRange == 14 * 365 + 3 - 1

\* randint that draws from 0 on, whatever its lower limit.
RandIntFromZero(low, high) == {0, high - 1}

\* The values np.random.randint(low, high) draws from are low..(high - 1);
\* the two ends of that range.
RandInt(low, high) == {low, high - 1}

\* np.random.randint(..., size=nrows) raises ValueError for a negative size.
GenerateOrderDataRaises(n) == n < 0

GenInit ==
    /\ NoGen
    /\ NoPass
    /\ NoApp
    /\ NoGradio
    /\ NoLoad
    /\ NoCache
    /\ NoWeather

\* generate_order_data(n)
GenerateOrderData(n) ==
    /\ gen_outcome = "init"
    /\ nrows' = n
    /\ IF GenerateOrderDataRaises(n)
       THEN /\ gen_outcome' = "raised"
            /\ UNCHANGED order_data
       ELSE \E product_id \in [1..n -> RandInt(0, Len(ProductNames))],
               quantity \in [1..n -> RandInt(1, 11)],
               price \in [1..n -> RandInt(199, 10000)],
               days \in [1..n -> RandInt(0, DateRange)],
               customer_id \in [1..n -> RandInt(100, 1000)],
               customer \in [1..n -> RandInt(0, 2 ^ 15)] :
              /\ gen_outcome' = "returned"
              /\ order_data' =
                     [i \in 1..n |->
                        [order_id |-> i - 1,
                         order_date |-> days[i],
                         customer_id |-> customer_id[i],
                         customer_name |-> customer[i],
                         product_id |-> product_id[i] + 200,
                         product_names |-> ProductNames[product_id[i] + 1],
                         categories |-> ProductCategories[product_id[i] + 1],
                         quantity |-> quantity[i],
                         price |-> price[i],
                         total |-> price[i] * quantity[i]]]
    /\ UNCHANGED << raw_data, passVars, appVars, gradioVars, loadVars,
                    cacheVars, weatherVars >>

GenNext ==
    \E n \in (0 - MaxNegativeRows)..MaxGenRows : GenerateOrderData(n)

SpecGen == GenInit /\ [][GenNext]_vars

(***************************************************************************)
(* Vocabulary of the properties.                                           *)
(***************************************************************************)
\* How many times row r occurs in df.
Count(df, r) == Cardinality({ i \in 1..Len(df) : df[i] = r })

RowsOf(df) == { df[i] : i \in 1..Len(df) }

InRange(r) == start_date <= r.order_date /\ r.order_date <= end_date

\* The values of column col in df, missing cells left out.
Present(df, col) ==
    { v \in { df[i][col] : i \in 1..Len(df) } : ~IsNull(col, v) }

\* The revenue of the rows of df whose column col holds v.
RECURSIVE RevenueOf(_, _, _)
RevenueOf(df, col, v) ==
    IF df = << >> THEN 0
    ELSE (IF Head(df)[col] = v THEN Head(df).revenue ELSE 0)
         + RevenueOf(Tail(df), col, v)

RECURSIVE SeriesSum(_)
SeriesSum(s) == IF s = << >> THEN 0 ELSE Head(s).revenue + SeriesSum(Tail(s))

RECURSIVE TotalOf(_)
TotalOf(df) == IF df = << >> THEN 0 ELSE Head(df).revenue + TotalOf(Tail(df))

\* s holds one row per value of col present in df, with that value's revenue.
OneRowPerKeyOf(s, df, col, keys) ==
    /\ \A i \in 1..Len(s) :
         /\ s[i][col] \in keys
         /\ s[i].revenue = RevenueOf(df, col, s[i][col])
    /\ \A i, j \in 1..Len(s) : s[i][col] = s[j][col] => i = j

Descending(s) == \A i \in 1..(Len(s) - 1) : s[i].revenue >= s[i + 1].revenue

\* The sum of the total column of the source rows.
RECURSIVE SumTotal(_)
SumTotal(df) == IF df = << >> THEN 0 ELSE Head(df).total + SumTotal(Tail(df))

\* The row has a revenue, and it is the product of its quantity and price.
ComputedRevenue(row) ==
    /\ {"quantity", "price", "revenue"} \subseteq DOMAIN row
    /\ row["revenue"] = row["quantity"] * row["price"]

(***************************************************************************)
(* C1: with "All Categories" the filter returns exactly the rows of the    *)
(* dataset with start_date <= order_date <= end_date, both ends included:  *)
(* every row in the range as often as the dataset holds it, no other row.  *)
(***************************************************************************)
C1_DateRangeInclusive ==
    (outcome # "init" /\ selected_category = AllCategories) =>
        \A r \in RowsOf(raw_data) \cup RowsOf(filtered_data) :
            Count(filtered_data, r) = IF InRange(r) THEN Count(raw_data, r) ELSE 0

\* A one-day range kept a row dated on both its ends and dropped another row.
C1_Witness ==
    /\ outcome # "init"
    /\ selected_category = AllCategories
    /\ start_date = end_date
    /\ \E r \in RowsOf(filtered_data) : r.order_date = end_date
    /\ Len(filtered_data) < Len(raw_data)

(***************************************************************************)
(* C2: with a category other than "All Categories" the filter returns      *)
(* exactly the rows of the date range whose category equals that value,    *)
(* letter case included; "All Categories" restricts nothing.               *)
(***************************************************************************)
C2_CategoryExactMatch ==
    outcome # "init" =>
        \A r \in RowsOf(raw_data) \cup RowsOf(filtered_data) :
            Count(filtered_data, r) =
                IF /\ InRange(r)
                   /\ \/ selected_category = AllCategories
                      \/ r.categories = selected_category
                THEN Count(raw_data, r) ELSE 0

\* "Office" was selected, and a row labelled "office" in the range was left out
\* while a row labelled "Office" was kept.
C2_Witness ==
    /\ outcome # "init"
    /\ selected_category = "Office"
    /\ \E r \in RowsOf(raw_data) : InRange(r) /\ r.categories = "office"
    /\ \E r \in RowsOf(filtered_data) : r.categories = "Office"

(***************************************************************************)
(* C3: the revenue column of the category series sums to totalRevenue.     *)
(***************************************************************************)
C3_CategorySumIsTotal ==
    outcome = "returned" => 100 * SeriesSum(category_data) = total_revenue

(***************************************************************************)
(* C4: the revenue column of topProducts sums to at most totalRevenue.     *)
(***************************************************************************)
C4_TopProductsAtMostTotal ==
    outcome = "returned" => 100 * SeriesSum(top_products_data) <= total_revenue

\* C4 as amended: the revenue column of topProducts sums to at most
\* totalRevenue for every filtered subset in which no row has a negative
\* revenue.
C4_TopProductsAtMostTotalNonNegative ==
    (outcome = "returned" /\ \A r \in RowsOf(filtered_data) : r.revenue >= 0) =>
        100 * SeriesSum(top_products_data) <= total_revenue

\* More products than the limit, none with negative revenue, and the ones
\* left out carry revenue: topProducts sums to less than the total.
C4_Witness ==
    /\ outcome = "returned"
    /\ \A r \in RowsOf(filtered_data) : r.revenue >= 0
    /\ Cardinality(Present(filtered_data, "product_names")) > DefaultLimit
    /\ 100 * SeriesSum(top_products_data) < total_revenue

(***************************************************************************)
(* C5: topProducts has one row per product name with the product's summed  *)
(* revenue, is ordered by revenue descending and has min(10, number of     *)
(* distinct products) rows; no product left out has more revenue than one  *)
(* kept.                                                                   *)
(***************************************************************************)
C5_TopProducts ==
    outcome # "init" =>
        LET products == Present(filtered_data, "product_names")
            kept == { top_products_data[i].product_names :
                        i \in 1..Len(top_products_data) }
        IN  /\ OneRowPerKeyOf(top_products_data, filtered_data,
                              "product_names", products)
            /\ Descending(top_products_data)
            /\ Len(top_products_data) = Min(DefaultLimit, Cardinality(products))
            /\ \A p \in products \ kept : \A i \in 1..Len(top_products_data) :
                 RevenueOf(filtered_data, "product_names", p)
                     <= top_products_data[i].revenue

\* More than ten products: ten rows, and a product with revenue is left out.
C5_Witness ==
    /\ outcome # "init"
    /\ Cardinality(Present(filtered_data, "product_names")) > DefaultLimit
    /\ Len(top_products_data) = DefaultLimit
    /\ top_products_data[1].revenue > top_products_data[DefaultLimit].revenue

(***************************************************************************)
(* C6: the category series has one row per category present in the subset  *)
(* with the category's summed revenue, ordered by revenue descending.      *)
(***************************************************************************)
C6_CategorySeries ==
    outcome # "init" =>
        LET present == Present(filtered_data, "categories")
        IN  /\ OneRowPerKeyOf(category_data, filtered_data, "categories", present)
            /\ Len(category_data) = Cardinality(present)
            /\ Descending(category_data)

\* Two categories whose revenue order is the reverse of their name order.
C6_Witness ==
    /\ outcome # "init"
    /\ Len(category_data) >= 2
    /\ category_data[1].revenue > category_data[2].revenue
    /\ StringRank(category_data[1].categories)
         > StringRank(category_data[2].categories)

(***************************************************************************)
(* C7: the revenue series has exactly one row per distinct order date with *)
(* the date's summed revenue, ordered by date strictly ascending, and its  *)
(* revenue column sums to the revenue of the filtered rows.                *)
(***************************************************************************)
C7_RevenueSeries ==
    outcome # "init" =>
        LET dates == Present(filtered_data, "order_date")
        IN  /\ OneRowPerKeyOf(revenue_data, filtered_data, "order_date", dates)
            /\ Len(revenue_data) = Cardinality(dates)
            /\ \A i \in 1..(Len(revenue_data) - 1) :
                 revenue_data[i].order_date < revenue_data[i + 1].order_date
            /\ SeriesSum(revenue_data) = TotalOf(filtered_data)

\* Two dates, the later one with the smaller revenue, one of them holding
\* more rows than one.
C7_Witness ==
    /\ outcome # "init"
    /\ Len(revenue_data) = 2
    /\ Len(filtered_data) > 2
    /\ revenue_data[1].revenue > revenue_data[2].revenue

(***************************************************************************)
(* C8: totalOrders is the number of distinct order_id values of the        *)
(* filtered subset: line items sharing an order_id count once, and an      *)
(* empty subset counts 0.                                                  *)
(***************************************************************************)
C8_TotalOrders ==
    outcome = "returned" =>
        /\ total_orders = Cardinality(Present(filtered_data, "order_id"))
        /\ (filtered_data = << >> => total_orders = 0)

\* Two line items of one order were counted once.
C8_Witness ==
    /\ outcome = "returned"
    /\ Len(filtered_data) = 2
    /\ filtered_data[1].order_id = filtered_data[2].order_id
    /\ filtered_data[1].order_id # NaNId
    /\ total_orders = 1

(***************************************************************************)
(* C9: avgOrderValue is totalRevenue / totalOrders (to the cent) whenever  *)
(* totalOrders > 0, and 0 whenever totalOrders = 0.                        *)
(***************************************************************************)
C9_AvgOrderValue ==
    outcome = "returned" =>
        /\ total_orders > 0 =>
             /\ 2 * (avg_order_value * total_orders - total_revenue) <= total_orders
             /\ 2 * (total_revenue - avg_order_value * total_orders) <= total_orders
        /\ total_orders = 0 => avg_order_value = 0

(***************************************************************************)
(* C10: calculate_metrics returns a value for every filtered subset: for a *)
(* non-empty one a category whose summed revenue is the largest of the     *)
(* subset's categories, for an empty one "N/A".                            *)
(***************************************************************************)
C10_TopCategory ==
    outcome # "init" =>
        /\ outcome = "returned"
        /\ filtered_data = << >> => top_category = NotAvailable
        /\ filtered_data # << >> =>
             /\ top_category \in Present(filtered_data, "categories")
             /\ \A c \in Present(filtered_data, "categories") :
                  RevenueOf(filtered_data, "categories", top_category)
                      >= RevenueOf(filtered_data, "categories", c)

(***************************************************************************)
(* C11: a pass whose filter matches no row ends normally with totalRevenue *)
(* zero, totalOrders 0, avgOrderValue zero and topCategory "N/A", whatever *)
(* the filter setting.                                                     *)
(***************************************************************************)
C11_EmptySubsetMetrics ==
    (outcome # "init" /\ filtered_data = << >>) =>
        /\ outcome = "returned"
        /\ total_revenue = 0
        /\ total_orders = 0
        /\ avg_order_value = 0
        /\ top_category = NotAvailable

\* A dataset with rows in the date range, none of the selected category: the
\* pass returned the empty-subset metrics.
C11_Witness ==
    /\ outcome = "returned"
    /\ filtered_data = << >>
    /\ selected_category # AllCategories
    /\ \E r \in RowsOf(raw_data) : InRange(r)
    /\ total_orders = 0
    /\ top_category = NotAvailable

(***************************************************************************)
(* C13: with start_date after end_date the filter returns the empty frame  *)
(* and the pass ends normally, for every non-empty dataset and every       *)
(* category.                                                               *)
(***************************************************************************)
C13_ReversedRangeIsEmpty ==
    (outcome # "init" /\ raw_data # << >> /\ start_date > end_date) =>
        /\ filtered_data = << >>
        /\ outcome = "returned"

\* A reversed range with a row dated between its two ends, and nothing kept.
C13_Witness ==
    /\ outcome = "returned"
    /\ start_date > end_date
    /\ \E r \in RowsOf(raw_data) :
         end_date <= r.order_date /\ r.order_date <= start_date
    /\ filtered_data = << >>

(***************************************************************************)
(* C12: for an empty filtered subset each of the three series has no rows  *)
(* and still names its columns: the date column and revenue, categories    *)
(* and revenue, product_names and revenue.                                 *)
(***************************************************************************)
C12_EmptySeriesKeepColumns ==
    (outcome # "init" /\ filtered_data = << >>) =>
        /\ revenue_data = << >>
        /\ category_data = << >>
        /\ top_products_data = << >>
        /\ series_columns.revenue_data \in
               { << "date", "revenue" >>, << "order_date", "revenue" >> }
        /\ series_columns.category_data = << "categories", "revenue" >>
        /\ series_columns.top_products_data = << "product_names", "revenue" >>

(***************************************************************************)
(* C18: a revenue value the source supplies for a row (its total) is the   *)
(* row's revenue in every pass: the table shows it as the row's revenue    *)
(* and the total revenue is the sum of the source values.                  *)
(***************************************************************************)
C18_SourceRevenueKept ==
    outcome = "returned" =>
        /\ \A i \in 1..Len(table_data) :
             table_data[i].revenue = table_data[i].total
        /\ total_revenue = SumTotal(filtered_data)

(***************************************************************************)
(* C14: after any sequence of filter changes the values in the state are   *)
(* those of one pass over the full loaded dataset with the current         *)
(* start_date, end_date and selected_category: the table is the filter of  *)
(* the loaded dataset, and every output is what a first pass with these    *)
(* values leaves, whatever was selected before.                            *)
(***************************************************************************)
C14_OutputsOfCurrentFilter ==
    outcome # "init" =>
        LET fresh == ApplyChangesResult(raw_data, start_date, end_date,
                                        selected_category, InitialOutputs)
        IN  /\ state_raw_data =
                   FilterDataByDateAndCategory(raw_data, start_date, end_date,
                                               selected_category)
            /\ revenue_data = fresh.revenue_data
            /\ category_data = fresh.category_data
            /\ top_products_data = fresh.top_products_data
            /\ total_revenue = fresh.total_revenue
            /\ total_orders = fresh.total_orders
            /\ avg_order_value = fresh.avg_order_value
            /\ top_category = fresh.top_category

C19_SentinelNotACategory ==
    /\ \A r \in RowsOf(raw_data) : r.categories # AllCategories
    /\ Cardinality({ i \in 1..Len(categories) :
                       categories[i] = AllCategories }) = 1
    /\ (outcome # "init"
        /\ \E r \in RowsOf(raw_data) : r.categories = selected_category) =>
           \A r \in RowsOf(state_raw_data) : r.categories = selected_category

(***************************************************************************)
(* C20: the category list is "All Categories" followed by each distinct    *)
(* non-null category of the dataset exactly once, in the order of first    *)
(* appearance; for an empty dataset it is "All Categories" alone.          *)
(***************************************************************************)
C20_CategoriesList ==
    LET rest == Tail(categories)
        First(c) == CHOOSE k \in 1..Len(raw_data) :
                      /\ raw_data[k].categories = c
                      /\ \A j \in 1..(k - 1) : raw_data[j].categories # c
    IN  /\ categories[1] = AllCategories
        /\ { rest[i] : i \in 1..Len(rest) } = Present(raw_data, "categories")
        /\ \A i, j \in 1..Len(rest) : rest[i] = rest[j] => i = j
        /\ \A i, j \in 1..Len(rest) : i < j => First(rest[i]) < First(rest[j])
        /\ raw_data = << >> => categories = << AllCategories >>

\* "Office" appears before "Electronics" in the dataset and in the list.
C20_Witness ==
    /\ Len(raw_data) = 2
    /\ raw_data[1].categories = "Office"
    /\ raw_data[2].categories = "Electronics"
    /\ categories = << AllCategories, "Office", "Electronics" >>

(***************************************************************************)
(* C21: a change of a state variable makes a recomputation pass exactly    *)
(* when the variable is start_date, end_date or selected_category; a       *)
(* change of any other variable (selected_tab) leaves the filters, the     *)
(* table, the three series and the four metrics as they were.              *)
(***************************************************************************)
C21_PassExactlyOnFilterChange ==
    [][(outcome # "init") =>
          /\ (passes' = passes + 1) <=> ShouldApplyChanges(changed_var')
          /\ ~ShouldApplyChanges(changed_var') =>
                /\ passes' = passes
                /\ UNCHANGED << start_date, end_date, selected_category,
                                state_raw_data, revenue_data, category_data,
                                top_products_data, series_columns,
                                total_revenue, total_orders, avg_order_value,
                                top_category, outcome >>]_vars

\* The chart was switched after the first pass: the tab is another one, the
\* pass count and the outputs are those of on_init.
C21_Witness ==
    /\ changed_var = "selected_tab"
    /\ selected_tab = "Top Products"
    /\ passes = 1
    /\ outcome = "returned"
    /\ total_orders = MaxOrderId
    /\ Len(revenue_data) = MaxDate

(***************************************************************************)
(* C16: a load failure is never fatal: in every variant the loader leaves  *)
(* an empty dataset and the start-up goes on.                              *)
(***************************************************************************)
C16_LoadFailureNotFatal ==
    startup # "start" =>
        /\ startup = "ready"
        /\ source = NoFile => loaded = EmptyFrame

C28_PassAllOrNothing ==
    [][(passes' = passes + 1) =>
          LET f == FilterDataByDateAndCategory(raw_data, start_date', end_date',
                                               selected_category')
          IN  \/ /\ state_raw_data' = f
                 /\ revenue_data' = CreateRevenueData(f)
                 /\ category_data' = CreateCategoryData(f)
                 /\ top_products_data' = CreateTopProductsData(f, AppLimit)
                 /\ ~CalculateMetricsRaises(f)
                 /\ total_revenue' = CalculateMetrics(f).total_revenue
                 /\ total_orders' = CalculateMetrics(f).total_orders
                 /\ avg_order_value' = CalculateMetrics(f).avg_order_value
                 /\ top_category' = CalculateMetrics(f).top_category
              \/ /\ outcome' = "raised"
                 /\ UNCHANGED << state_raw_data, revenue_data, category_data,
                                 top_products_data, total_revenue, total_orders,
                                 avg_order_value, top_category >>]_vars

(***************************************************************************)
(* C29: whatever the dataset and the filter values, after a pass of        *)
(* apply_changes the state holds what process_data_changes returns for     *)
(* them: process_data_changes returns, and its three series and four       *)
(* metrics are the ones in the state.                                      *)
(***************************************************************************)
C29_ApplyChangesIsProcessDataChanges ==
    outcome # "init" =>
        LET f == FilterDataByDateAndCategory(raw_data, start_date, end_date,
                                             selected_category)
        IN  /\ ~CalculateMetricsRaises(f)
            /\ revenue_data = CreateRevenueData(f)
            /\ category_data = CreateCategoryData(f)
            /\ top_products_data = CreateTopProductsData(f, DefaultLimit)
            /\ << total_revenue, total_orders, avg_order_value, top_category >>
                   = << CalculateMetrics(f).total_revenue,
                        CalculateMetrics(f).total_orders,
                        CalculateMetrics(f).avg_order_value,
                        CalculateMetrics(f).top_category >>

(***************************************************************************)
(* C30: for every non-empty filtered subset the pass returns, topCategory  *)
(* names a row of the category series whose revenue is that of the first   *)
(* (largest) row, and totalOrders is at least 1 and at most the number of  *)
(* filtered rows.                                                          *)
(***************************************************************************)
C30_MetricsAgreeWithSeries ==
    (outcome # "init" /\ filtered_data # << >>) =>
        /\ outcome = "returned"
        /\ \E i \in 1..Len(category_data) :
             /\ category_data[i].categories = top_category
             /\ category_data[i].revenue = category_data[1].revenue
        /\ 1 <= total_orders
        /\ total_orders <= Len(filtered_data)

(***************************************************************************)
(* C27: for a label L of get_unique_categories, filter_data(start, end, L) *)
(* returns exactly the rows of the date range whose stored category,       *)
(* capitalized, is L, so over the full date range it returns at least one  *)
(* row; L itself is compared case-sensitively: the label in lower case     *)
(* selects no row.                                                         *)
(***************************************************************************)
C27_LabelSelectsItsRows ==
    (outcome = "returned" /\ selected_category # AllCategories) =>
        LET L == selected_category
            labels == GetUniqueCategories(csv_data)
            offered == \E i \in 1..Len(labels) : labels[i] = L
            full == /\ start_date <= GradioGetDateRange(csv_data)[1]
                    /\ GradioGetDateRange(csv_data)[2] <= end_date
        IN  /\ \A r \in RowsOf(csv_data) \cup RowsOf(filtered_data) :
                 Count(filtered_data, r) =
                     IF /\ InRange(r)
                        /\ r.categories # NaN
                        /\ Capitalize(r.categories) = L
                     THEN Count(csv_data, r) ELSE 0
            /\ (offered /\ full) => filtered_data # << >>
            /\ Capitalize(L) # L => filtered_data = << >>

\* The label "Electronics" was offered for rows stored as "electronics" and
\* selected them.
C27_Witness ==
    /\ outcome = "returned"
    /\ selected_category = "Electronics"
    /\ Len(filtered_data) = MaxRows
    /\ \A r \in RowsOf(filtered_data) : r.categories = "electronics"
    /\ categories = << AllCategories, "Electronics" >>

(***************************************************************************)
(* C25: get_unique_categories memoizes its list for 300 seconds: a call    *)
(* less than 300 seconds after the last computation returns the memoized   *)
(* list and computes nothing, a later call computes the list from the      *)
(* current csv_data and memoizes it, and the list a call returns was       *)
(* computed less than 300 seconds before.                                  *)
(***************************************************************************)
C25_MemoizedWithinTtl ==
    [][(called_at' # called_at) =>
          LET computed_at == cache.expires - CacheTtl
              fresh == GetUniqueCategories(csv_data)
          IN  /\ IF cache.present /\ now - computed_at < CacheTtl
                 THEN /\ cache' = cache
                      /\ unique_categories' = cache.value
                 ELSE /\ cache'.value = fresh
                      /\ cache'.expires - CacheTtl = now
                      /\ unique_categories' = fresh
              /\ cache'.present
              /\ unique_categories' = cache'.value
              /\ now - (cache'.expires - CacheTtl) < CacheTtl]_vars

\* The file was read again after the list was computed at time 0; the call
\* one second before the entry expired returned the memoized list, not the
\* list of the new file.
C25_Witness ==
    /\ called_at = CacheTtl - 1
    /\ cache.present
    /\ cache.expires = CacheTtl
    /\ unique_categories = cache.value
    /\ unique_categories # GetUniqueCategories(csv_data)

(***************************************************************************)
(* C22: fetch_weather_data returns for every city and every upstream       *)
(* outcome, and its result names the city: status 'success' with           *)
(* temperature, humidity and description for a well-formed 200 response;   *)
(* status 'error' with error 'HTTP <code>' for another status code, with   *)
(* 'timeout' for a timeout, with 'connection_error' for a connection       *)
(* error; status 'error' for any other exception.                          *)
(***************************************************************************)
C22_FetchAlwaysReturns ==
    (handler_pc = "idle" /\ handler_result # NoResult) =>
        LET r == handler_result
            u == handler_response
        IN  /\ r.city = handler_city
            /\ r.status \in {"success", "error"}
            /\ (u.kind = "response" /\ u.code = Ok /\ u.wellformed) =>
                  /\ r.status = "success"
                  /\ r.temperature = u.temp
                  /\ r.humidity = u.humidity
                  /\ r.description = u.description
            /\ (u.kind = "response" /\ u.code # Ok) =>
                  /\ r.status = "error"
                  /\ << u.code, r.error >> \in
                         { << 401, "HTTP 401" >>, << 404, "HTTP 404" >>,
                           << 500, "HTTP 500" >> }
            /\ u.kind = "timeout" =>
                  r.status = "error" /\ r.error = "timeout"
            /\ u.kind = "connection_error" =>
                  r.status = "error" /\ r.error = "connection_error"
            /\ (u.kind = "exception"
                \/ (u.kind = "response" /\ u.code = Ok /\ ~u.wellformed)) =>
                  r.status = "error"

\* A request for a city outside the list was answered by a 200 response
\* without 'main': the handler got an error dict naming the city.
C22_Witness ==
    /\ handler_pc = "idle"
    /\ handler_city = "Atlantis"
    /\ handler_response.code = Ok
    /\ ~handler_response.wellformed
    /\ handler_result = ErrorResult("Atlantis", "'main'")

(***************************************************************************)
(* C23: the weather monitor never stops on its own: as long as the process *)
(* lives, it has just fetched infinitely often and it sleeps infinitely    *)
(* often, also after an iteration whose alert logic raised.                *)
(***************************************************************************)
C23_MonitorNeverStops ==
    /\ []<>(monitor_pc = "alert" \/ ~running)
    /\ []<>(monitor_pc = "sleep" \/ ~running)

\* The iteration before raised in the alert logic, and the monitor has
\* fetched again.
C23_Witness ==
    /\ running
    /\ monitor_pc = "alert"
    /\ monitor_raised
    /\ monitor_result.status = "error"

C26_GeneratedRows ==
    gen_outcome # "init" =>
        /\ nrows < 0 => gen_outcome = "raised"
        /\ nrows >= 0 =>
              /\ gen_outcome = "returned"
              /\ Len(order_data) = nrows
              /\ \A i \in 1..Len(order_data) :
                   LET row == order_data[i]
                   IN  /\ row.order_id = i - 1
                       /\ row.quantity \in 1..10
                       /\ 199 <= row.price /\ row.price <= 10000
                       /\ row.total = row.price * row.quantity
                       /\ row.customer_id \in 100..999
                       /\ row.product_id >= 200
                       /\ 0 <= row.order_date /\ row.order_date <= DateRange

\* Two rows were generated, the second with the largest quantity, price,
\* customer_id and date that can be drawn.
C26_Witness ==
    /\ gen_outcome = "returned"
    /\ nrows = MaxGenRows
    /\ order_data[2].order_id = 1
    /\ order_data[2].quantity = 10
    /\ order_data[2].price = 9999
    /\ order_data[2].total = 99990
    /\ order_data[2].customer_id = 999
    /\ order_data[2].order_date = DateRange - 1

====
